---------------------------- MODULE Spec2Model ----------------------------
(***************************************************************************)
(* A model of ripper.py: the signature-analysis pipeline that turns the    *)
(* mangled C++ symbols of an ELF file into Function records (demangled     *)
(* name, arguments, namespace, ARM argument slots) collected by ELF.       *)
(*                                                                         *)
(* Python strings are TLA+ strings; a character is a string of length 1.   *)
(* The characters of the model are printable ASCII, the alphabet of        *)
(* demangled Itanium names.                                                *)
(***************************************************************************)
EXTENDS Integers, Sequences, FiniteSets, TLC

VARIABLES
    pc,         \* the position of the running code
    symtab,     \* cli: the names table.iter_symbols() yields, in table order
    pos,        \* how many items the running for loop has consumed
    functions,  \* ELF.functions
    version,    \* ELF.version
    output,     \* cli: what as_json() handed to the output file
    data,       \* split_cpp_args: its argument
    demangled,  \* Function: what demangle(mangled_func) did
    func,       \* _demangle_arguments: its argument
    ret,        \* the value the called function returned
    counter,    \* _make_possible_arg_offsets: its OffsetCounter
    d,          \* _make_possible_arg_offsets: the dict d, in insertion order
    args        \* Function.args

vars == <<pc, symtab, pos, functions, version, output, data, demangled,
          func, ret, counter, d, args>>

None == "None"

-----------------------------------------------------------------------------
(* Bounds of the model *)

\* The longest string split_cpp_args is applied to
MaxSplitLen == 5

\* The longest signature _demangle_arguments is applied to
MaxSigLen == 5

\* The most arguments of a demangled signature
MaxArgs == 4

\* The most arguments _make_possible_arg_offsets binds step by step
MaxBound == 9

\* The most symbols of the symbol table
MaxSymbols == 2

-----------------------------------------------------------------------------
(* Python string primitives *)

CharAt(s, i) == SubSeq(s, i, i)

\* str.startswith(prefix)
StartsWith(s, prefix) ==
    /\ Len(prefix) <= Len(s)
    /\ SubSeq(s, 1, Len(prefix)) = prefix

\* The characters str.strip() removes; the space is the only whitespace
\* character of a demangled name.
Whitespace == {" "}

RECURSIVE LStripChars(_, _)
\* str.lstrip(chars)
LStripChars(s, chars) ==
    IF Len(s) > 0 /\ CharAt(s, 1) \in chars
    THEN LStripChars(SubSeq(s, 2, Len(s)), chars)
    ELSE s

RECURSIVE RStripChars(_, _)
\* str.rstrip(chars)
RStripChars(s, chars) ==
    IF Len(s) > 0 /\ CharAt(s, Len(s)) \in chars
    THEN RStripChars(SubSeq(s, 1, Len(s) - 1), chars)
    ELSE s

\* str.strip()
Strip(s) == RStripChars(LStripChars(s, Whitespace), Whitespace)

\* The positions at which sep occurs in s
Occurrences(s, sep) ==
    {i \in 1..(Len(s) - Len(sep) + 1) : SubSeq(s, i, i + Len(sep) - 1) = sep}

\* "sep in s"
Contains(s, sep) == Occurrences(s, sep) # {}

Min(S) == CHOOSE x \in S : \A y \in S : x <= y

Max(S) == CHOOSE x \in S : \A y \in S : x >= y

\* s.split(sep, 1)[-1]: what follows the first sep, or s when there is none
SplitFirstLast(s, sep) ==
    IF Contains(s, sep)
    THEN SubSeq(s, Min(Occurrences(s, sep)) + Len(sep), Len(s))
    ELSE s

\* s.rsplit(sep, 1)[0]: what precedes the last sep, or s when there is none
RSplitFirst(s, sep) ==
    IF Contains(s, sep)
    THEN SubSeq(s, 1, Max(Occurrences(s, sep)) - 1)
    ELSE s

RECURSIVE SplitCount(_, _)
\* len(s.split(sep)): one more than the number of non-overlapping
\* occurrences of sep, scanned from the left
SplitCount(s, sep) ==
    IF Contains(s, sep)
    THEN 1 + SplitCount(SubSeq(s, Min(Occurrences(s, sep)) + Len(sep), Len(s)), sep)
    ELSE 1

\* The code points 35..91, 93..95 and 97..126, in order
AsciiFrom35 == "#$%&'()*+,-./0123456789:;<=>?@ABCDEFGHIJKLMNOPQRSTUVWXYZ["

AsciiFrom93 == "]^_"

AsciiFrom97 == "abcdefghijklmnopqrstuvwxyz{|}~"

\* ord(c), for the characters of the model
ord(c) ==
    IF c = " " THEN 32
    ELSE IF c = "!" THEN 33
    ELSE IF Contains(AsciiFrom35, c) THEN 34 + Min(Occurrences(AsciiFrom35, c))
    ELSE IF Contains(AsciiFrom93, c) THEN 92 + Min(Occurrences(AsciiFrom93, c))
    ELSE 96 + Min(Occurrences(AsciiFrom97, c))

\* The character a byte below 128 decodes to
chr(n) ==
    IF n = 32 THEN " "
    ELSE IF n = 33 THEN "!"
    ELSE IF n < 92 THEN CharAt(AsciiFrom35, n - 34)
    ELSE IF n < 96 THEN CharAt(AsciiFrom93, n - 92)
    ELSE CharAt(AsciiFrom97, n - 96)

RECURSIVE decode(_)
\* bytearray.decode(), for bytes below 128
decode(b) == IF b = <<>> THEN "" ELSE chr(Head(b)) \o decode(Tail(b))

-----------------------------------------------------------------------------
(* split_cpp_args *)

RECURSIVE split_loop_no_close(_, _, _, _, _)
\* split_loop without "followed_by -= 1": a ">" closes nothing
split_loop_no_close(s, k, a, b, followed_by) ==
    IF k > Len(s) THEN <<a, b>>
    ELSE LET c == CharAt(s, k) IN
         IF c = "<"
         THEN split_loop_no_close(s, k + 1, a, Append(b, ord(c)), followed_by + 1)
         ELSE IF c = "," /\ followed_by = 0
         THEN split_loop_no_close(s, k + 1, Append(a, Strip(decode(b))), <<>>, followed_by)
         ELSE split_loop_no_close(s, k + 1, a, Append(b, ord(c)), followed_by)

RECURSIVE split_loop(_, _, _, _, _)
\* The for loop of split_cpp_args from character k on; args, b and
\* followed_by are the function's locals. The value is <<args, b>> after
\* the last character.
split_loop(s, k, a, b, followed_by) ==
    IF k > Len(s) THEN <<a, b>>
    ELSE LET c == CharAt(s, k) IN
         IF c = "<"
         THEN split_loop(s, k + 1, a, Append(b, ord(c)), followed_by + 1)
         ELSE IF c = ">"
         THEN split_loop(s, k + 1, a, Append(b, ord(c)), followed_by - 1)
         ELSE IF c = "," /\ followed_by = 0
         THEN split_loop(s, k + 1, Append(a, Strip(decode(b))), <<>>, followed_by)
         ELSE split_loop(s, k + 1, a, Append(b, ord(c)), followed_by)

\* split_cpp_args without the strip() of the trailing fragment
split_cpp_args_unstripped(s) ==
    LET end == split_loop(s, 1, <<>>, <<>>, 0)
    IN  IF end[2] # <<>>
        THEN Append(end[1], decode(end[2]))
        ELSE end[1]

split_cpp_args(s) ==
    LET end == split_loop(s, 1, <<>>, <<>>, 0)
    IN  IF end[2] # <<>>
        THEN Append(end[1], Strip(decode(end[2])))
        ELSE end[1]

-----------------------------------------------------------------------------
(* NamespaceEnum *)

NONE == 1

STD == 2

COCOS2D == 3

PUGI == 4

\* NamespaceEnum.<member>.name
EnumName(e) ==
    CASE e = NONE -> "NONE"
      [] e = STD -> "STD"
      [] e = COCOS2D -> "COCOS2D"
      [] e = PUGI -> "PUGI"

UpperCase == "ABCDEFGHIJKLMNOPQRSTUVWXYZ"

LowerCase == "abcdefghijklmnopqrstuvwxyz"

RECURSIVE lower(_)
\* str.lower()
lower(s) ==
    IF s = "" THEN ""
    ELSE LET c == CharAt(s, 1) IN
         (IF Contains(UpperCase, c)
          THEN CharAt(LowerCase, Min(Occurrences(UpperCase, c)))
          ELSE c) \o lower(SubSeq(s, 2, Len(s)))

-----------------------------------------------------------------------------
(* OffsetCounter *)

DecDigits == "0123456789"

HexDigits == "0123456789abcdef"

RECURSIVE FormatInt(_)
\* "%i" % n, n >= 0
FormatInt(n) ==
    IF n < 10 THEN CharAt(DecDigits, n + 1)
    ELSE FormatInt(n \div 10) \o CharAt(DecDigits, (n % 10) + 1)

RECURSIVE HexTail(_)
HexTail(n) ==
    IF n < 16 THEN CharAt(HexDigits, n + 1)
    ELSE HexTail(n \div 16) \o CharAt(HexDigits, (n % 16) + 1)

\* hex(n) writing the offset in decimal
hex_decimal(n) == "0x" \o FormatInt(n)

\* hex(n), n >= 0
hex(n) == "0x" \o HexTail(n)

\* OffsetCounter.__init__
OffsetCounter == [i |-> 0, stack_val |-> 0]

\* The value OffsetCounter.next() returns on counter c
next_value(c) ==
    IF c.i < 4
    THEN "r" \o FormatInt(c.i)
    ELSE "STACK[" \o hex(c.stack_val * 4) \o "]"

\* The counter OffsetCounter.next() leaves
next_state(c) ==
    IF c.i < 4
    THEN [c EXCEPT !.i = c.i + 1]
    ELSE [c EXCEPT !.stack_val = c.stack_val + 1]

-----------------------------------------------------------------------------
(* Function *)

\* A dict is the sequence of its <<key, value>> items in insertion order.
\* dict[key] = value
DictSet(dict, key, value) ==
    IF \E j \in 1..Len(dict) : dict[j][1] = key
    THEN [j \in 1..Len(dict) |->
            IF dict[j][1] = key THEN <<key, value>> ELSE dict[j]]
    ELSE Append(dict, <<key, value>>)

\* _find_namespace with the library's name spelled "cocos2d"
_find_namespace_respelled(f) ==
    IF StartsWith(f, "cocos2d::") THEN COCOS2D
    ELSE IF StartsWith(f, "std::") THEN STD
    ELSE IF StartsWith(f, "pugi::") THEN PUGI
    ELSE NONE

\* Function._find_namespace
_find_namespace(f) ==
    IF StartsWith(f, "cococs2d::") THEN COCOS2D
    ELSE IF StartsWith(f, "std::") THEN STD
    ELSE IF StartsWith(f, "pugi::") THEN PUGI
    ELSE NONE

\* Function._is_this_call, on a record whose namespaceEnum is ns
_is_this_call(ns, f) == ns # NONE \/ SplitCount(f, "::") >= 2

\* Function._demangle_arguments
_demangle_arguments(f) ==
    IF Contains(f, "{")
    THEN LET g == SplitFirstLast(RStripChars(LStripChars(f, {"{"}), {"}"}), ",")
             inner == RSplitFirst(SplitFirstLast(g, "("), ")")
         IN  split_cpp_args(RStripChars(inner, {")"}))
    ELSE IF Contains(f, "(")
    THEN split_cpp_args(RSplitFirst(SplitFirstLast(f, "("), ")"))
    ELSE <<>>

\* The truth value of "self._is_this_call" in the if of
\* _make_possible_arg_offsets: the method is not called there, and a bound
\* method object is true.
BoundMethodTruth == TRUE

RECURSIVE bind_args(_, _, _, _)
\* {counter.next(): a.strip() for a in self.args} from the k-th argument
\* on, added to dict; c is the counter
bind_args(dict, c, a, k) ==
    IF k > Len(a) THEN dict
    ELSE bind_args(DictSet(dict, next_value(c), Strip(a[k])), next_state(c), a, k + 1)

\* _make_possible_arg_offsets taking its else branch
_make_possible_arg_offsets_no_this(a) == bind_args(<<>>, OffsetCounter, a, 1)

\* Function._make_possible_arg_offsets, on a record whose args are a
_make_possible_arg_offsets(a) ==
    IF BoundMethodTruth
    THEN bind_args(DictSet(<<>>, next_value(OffsetCounter), "this"),
                   next_state(OffsetCounter), a, 1)
    ELSE bind_args(<<>>, OffsetCounter, a, 1)

\* What demangle(mangled_func) did: returned value, or raised ValueError
Returned(value) == [raised |-> FALSE, value |-> value]

Raised == [raised |-> TRUE, value |-> None]

\* Function(mangled_func): the attrs __init__ and __attrs_post_init__,
\* given what demangle(mangled_func) did
Function(mangled_func, outcome) ==
    IF outcome.raised
    THEN [mangled_func |-> mangled_func,
          demangled_func |-> "FAILED",
          args |-> <<>>,
          namespaceEnum |-> NONE,
          namespaceName |-> "none",
          arg_offsets |-> <<>>]
    ELSE LET a == _demangle_arguments(outcome.value)
             ns == _find_namespace(outcome.value)
         IN  [mangled_func |-> mangled_func,
              demangled_func |-> outcome.value,
              args |-> a,
              namespaceEnum |-> ns,
              namespaceName |-> lower(EnumName(ns)),
              arg_offsets |-> _make_possible_arg_offsets(a)]

-----------------------------------------------------------------------------
(* ELF *)

\* Skipped that also drops the records of failed demanglings
Skipped_failed_too(f) ==
    \/ \E j \in 1..Len(f.args) : StartsWith(f.args[j], "std::__exception_ptr")
    \/ StartsWith(f.demangled_func, "typeinfo name for ")
    \/ StartsWith(f.demangled_func, "typeinfo for ")
    \/ StartsWith(f.demangled_func, "{vtable")
    \/ f.demangled_func = "FAILED"

\* The test of the if in ELF.add_func, on record f
Skipped(f) ==
    \/ \E j \in 1..Len(f.args) : StartsWith(f.args[j], "std::__exception_ptr")
    \/ StartsWith(f.demangled_func, "typeinfo name for ")
    \/ StartsWith(f.demangled_func, "typeinfo for ")
    \/ StartsWith(f.demangled_func, "{vtable")

\* add_func that looks at the first argument only
add_func_first_arg(funcs, name, outcome) ==
    LET f == Function(name, outcome)
    IN  IF \/ Len(f.args) > 0 /\ StartsWith(f.args[1], "std::__exception_ptr")
           \/ StartsWith(f.demangled_func, "typeinfo name for ")
           \/ StartsWith(f.demangled_func, "typeinfo for ")
           \/ StartsWith(f.demangled_func, "{vtable")
        THEN funcs
        ELSE Append(funcs, f)

\* add_func that puts the new record first
add_func_prepend(funcs, name, outcome) ==
    LET f == Function(name, outcome)
    IN  IF Skipped(f) THEN funcs ELSE <<f>> \o funcs

\* ELF.functions after ELF.add_func(name), given what demangle(name) did
add_func(funcs, name, outcome) ==
    LET f == Function(name, outcome)
    IN  IF Skipped(f) THEN funcs ELSE Append(funcs, f)

\* attrs.asdict of one Function; orjson writes the IntEnum as its integer
asdict(f) ==
    [mangled_func |-> f.mangled_func,
     demangled_func |-> f.demangled_func,
     args |-> f.args,
     namespaceEnum |-> f.namespaceEnum,
     namespaceName |-> f.namespaceName,
     arg_offsets |-> f.arg_offsets]

\* The object ELF.as_json serialises
as_json(funcs, ver) ==
    [functions |-> [j \in 1..Len(funcs) |-> asdict(funcs[j])],
     total_functions |-> Len(funcs),
     gd_version |-> ver]

-----------------------------------------------------------------------------
(* The demangler and the inputs of the model *)

\* cpp_demangle.demangle on the symbol names of the model
demangle(name) ==
    CASE name = "_ZN7cococs2d9SomeClass6methodEi" ->
            Returned("cococs2d::SomeClass::method(int)")
      [] name = "_Z1fi" ->
            Returned("f(int)")
      [] name = "_ZTI3Foo" ->
            Returned("typeinfo for Foo")
      [] name = "_ZTS3Foo" ->
            Returned("typeinfo name for Foo")
      [] name = "_ZTV3Foo" ->
            Returned("{vtable(Foo)}")
      [] name = "_Z1giNSt15__exception_ptr13exception_ptrE" ->
            Returned("g(int, std::__exception_ptr::exception_ptr)")
      [] name = "_Z8typeinfov" ->
            Returned("typeinfo()")
      [] OTHER -> Raised

\* The symbol names of the model: the seven demangle knows, a malformed
\* one, and one that is no C++ symbol
SymbolNames ==
    {"_ZN7cococs2d9SomeClass6methodEi", "_Z1fi", "_ZTI3Foo", "_ZTS3Foo",
     "_ZTV3Foo", "_Z1giNSt15__exception_ptr13exception_ptrE",
     "_Z8typeinfov", "_Z", "main"}

Versions == {"2.2074", "2.205"}

\* The sequences over S of length at most n
SeqsUpTo(S, n) == UNION {[1..k -> S] : k \in 0..n}

RECURSIVE StringsUpTo(_, _)
\* The strings over alphabet of length at most n
StringsUpTo(alphabet, n) ==
    IF n = 0 THEN {""}
    ELSE LET shorter == StringsUpTo(alphabet, n - 1)
         IN  shorter \cup {s \o c : s \in shorter, c \in alphabet}

RECURSIVE Join(_, _)
\* sep.join(items)
Join(items, sep) ==
    IF items = <<>> THEN ""
    ELSE IF Len(items) = 1 THEN items[1]
    ELSE items[1] \o sep \o Join(Tail(items), sep)

SplitAlphabet == {"a", " ", ",", "<", ">"}

SigAlphabet == {"a", ",", "(", ")", "{", "}"}

\* Argument types as the demangler writes them
ArgTypes == {"int", "std::string", "T<a, b>"}

\* Argument types as split_cpp_args leaves them in Function.args
BoundArgTypes == {"int", "T<a, b>"}

\* How a demangled signature starts
Heads == {"", "cococs2d::", "cocos2d::", "std::", "pugi::", "std:", "void std::"}

\* The function's own name
OwnNames == {"f", "A::f"}

\* The signatures the demangler returns in SpecFunction
Signatures ==
    {h \o n : h \in Heads, n \in OwnNames}
    \cup {h \o n \o "(" \o Join(a, ", ") \o ")" :
            h \in Heads, n \in OwnNames, a \in SeqsUpTo(ArgTypes, MaxArgs)}
    \cup {"cococs2d::SomeClass::method(int)", "typeinfo for Foo",
          "{vtable(Foo)}"}

\* The mangled name of the record built in SpecFunction; only what the
\* demangler made of it is read
SampleMangled == "_Z..."

-----------------------------------------------------------------------------
(* cli: the loop over the symbol table, then the write of the JSON file *)

cliVars == <<symtab, pos, functions, version, output>>

callVars == <<data, demangled, func, ret>>

offsetVars == <<counter, d, args>>

Init ==
    /\ pc = "symbols"
    /\ symtab \in SeqsUpTo(SymbolNames, MaxSymbols)
    /\ pos = 0
    /\ functions = <<>>
    /\ version \in Versions
    /\ output = None
    /\ data = None /\ demangled = None /\ func = None /\ ret = None
    /\ counter = None /\ d = None /\ args = None

\* A symbol whose name does not start with "_Z" is passed over
SkipSymbol ==
    /\ pc = "symbols"
    /\ pos < Len(symtab)
    /\ ~StartsWith(symtab[pos + 1], "_Z")
    /\ pos' = pos + 1
    /\ UNCHANGED <<pc, symtab, functions, version, output, callVars, offsetVars>>

\* elf.add_func(s.name)
AddFunc ==
    /\ pc = "symbols"
    /\ pos < Len(symtab)
    /\ StartsWith(symtab[pos + 1], "_Z")
    /\ functions' = add_func(functions, symtab[pos + 1], demangle(symtab[pos + 1]))
    /\ pos' = pos + 1
    /\ UNCHANGED <<pc, symtab, version, output, callVars, offsetVars>>

\* wb.write(elf.as_json())
WriteJson ==
    /\ pc = "symbols"
    /\ pos = Len(symtab)
    /\ output' = as_json(functions, version)
    /\ pc' = "done"
    /\ UNCHANGED <<symtab, pos, functions, version, callVars, offsetVars>>

Next == SkipSymbol \/ AddFunc \/ WriteJson

Spec == Init /\ [][Next]_vars

-----------------------------------------------------------------------------
(* Function(mangled_func) on the signatures the demangler may return *)

InitFunction ==
    /\ pc = "Function"
    /\ demangled \in {Returned(s) : s \in Signatures} \cup {Raised}
    /\ ret = None
    /\ data = None /\ func = None
    /\ symtab = None /\ pos = None /\ functions = None /\ version = None
    /\ output = None
    /\ counter = None /\ d = None /\ args = None

Construct ==
    /\ pc = "Function"
    /\ ret' = Function(SampleMangled, demangled)
    /\ pc' = "done"
    /\ UNCHANGED <<cliVars, data, demangled, func, offsetVars>>

NextFunction == Construct

SpecFunction == InitFunction /\ [][NextFunction]_vars

-----------------------------------------------------------------------------
(* split_cpp_args on every short string *)

InitSplit ==
    /\ pc = "split_cpp_args"
    /\ data \in StringsUpTo(SplitAlphabet, MaxSplitLen)
    /\ ret = None
    /\ demangled = None /\ func = None
    /\ symtab = None /\ pos = None /\ functions = None /\ version = None
    /\ output = None
    /\ counter = None /\ d = None /\ args = None

CallSplit ==
    /\ pc = "split_cpp_args"
    /\ ret' = split_cpp_args(data)
    /\ pc' = "done"
    /\ UNCHANGED <<cliVars, data, demangled, func, offsetVars>>

NextSplit == CallSplit

SpecSplit == InitSplit /\ [][NextSplit]_vars

-----------------------------------------------------------------------------
(* Function._demangle_arguments on every short signature *)

InitArgs ==
    /\ pc = "_demangle_arguments"
    /\ func \in StringsUpTo(SigAlphabet, MaxSigLen)
    /\ ret = None
    /\ data = None /\ demangled = None
    /\ symtab = None /\ pos = None /\ functions = None /\ version = None
    /\ output = None
    /\ counter = None /\ d = None /\ args = None

CallDemangleArguments ==
    /\ pc = "_demangle_arguments"
    /\ ret' = _demangle_arguments(func)
    /\ pc' = "done"
    /\ UNCHANGED <<cliVars, data, demangled, func, offsetVars>>

NextArgs == CallDemangleArguments

SpecArgs == InitArgs /\ [][NextArgs]_vars

-----------------------------------------------------------------------------
(* Function._make_possible_arg_offsets, one OffsetCounter.next() at a time *)

InitOffsets ==
    /\ pc = "_make_possible_arg_offsets"
    /\ args \in SeqsUpTo(BoundArgTypes, MaxBound)
    /\ counter = None /\ d = None /\ pos = None
    /\ ret = None
    /\ data = None /\ demangled = None /\ func = None
    /\ symtab = None /\ functions = None /\ version = None /\ output = None

\* counter = OffsetCounter(); d = dict(); if self._is_this_call:
Enter ==
    /\ pc = "_make_possible_arg_offsets"
    /\ counter' = OffsetCounter
    /\ d' = <<>>
    /\ pos' = 0
    /\ pc' = IF BoundMethodTruth THEN "this" ELSE "args"
    /\ UNCHANGED <<symtab, functions, version, output, callVars, args>>

\* d[counter.next()] = "this"
BindThis ==
    /\ pc = "this"
    /\ d' = DictSet(d, next_value(counter), "this")
    /\ counter' = next_state(counter)
    /\ pc' = "args"
    /\ UNCHANGED <<cliVars, callVars, args>>

\* One item of {counter.next(): a.strip() for a in self.args}; the keys
\* are new to d, so adding the items one by one is d.update of them all
BindArg ==
    /\ pc = "args"
    /\ pos < Len(args)
    /\ d' = DictSet(d, next_value(counter), Strip(args[pos + 1]))
    /\ counter' = next_state(counter)
    /\ pos' = pos + 1
    /\ UNCHANGED <<pc, symtab, functions, version, output, callVars, args>>

\* return d
Return ==
    /\ pc = "args"
    /\ pos = Len(args)
    /\ ret' = d
    /\ pc' = "done"
    /\ UNCHANGED <<cliVars, data, demangled, func, offsetVars>>

NextOffsets == Enter \/ BindThis \/ BindArg \/ Return

SpecOffsets == InitOffsets /\ [][NextOffsets]_vars

\* The steps build the dict _make_possible_arg_offsets returns
StepsAgree == (pc = "done") => (ret = _make_possible_arg_offsets(args))

-----------------------------------------------------------------------------
(* The properties checked *)

\* The slot ids in the order the ARM convention hands them out
ExpectedSlots ==
    <<"r0", "r1", "r2", "r3", "STACK[0x0]", "STACK[0x4]", "STACK[0x8]",
      "STACK[0xc]", "STACK[0x10]", "STACK[0x14]", "STACK[0x18]", "STACK[0x1c]",
      "STACK[0x20]", "STACK[0x24]", "STACK[0x28]", "STACK[0x2c]">>

\* The number of "<" minus the number of ">" among the first k characters
Depth(s, k) ==
    Cardinality({i \in 1..k : CharAt(s, i) = "<"})
    - Cardinality({i \in 1..k : CharAt(s, i) = ">"})

\* The positions of the commas at nesting depth 0
TopCommas(s) ==
    {i \in 1..Len(s) : CharAt(s, i) = "," /\ Depth(s, i - 1) = 0}

\* The position of the j-th comma at nesting depth 0
NthTopComma(s, j) ==
    CHOOSE i \in TopCommas(s) : Cardinality({x \in TopCommas(s) : x < i}) = j - 1

\* The text between the (j-1)-th and the j-th separator
Segment(s, j) ==
    SubSeq(s,
           IF j = 1 THEN 1 ELSE NthTopComma(s, j - 1) + 1,
           IF j = Cardinality(TopCommas(s)) + 1 THEN Len(s)
           ELSE NthTopComma(s, j) - 1)

\* C4: split_cpp_args splits at exactly the commas of nesting depth 0: the
\* j-th argument is the trimmed text between the (j-1)-th and the j-th such
\* comma, every such comma ends one argument, and what follows the last one
\* is the final argument when it is not empty.
C4_SplitsAtDepthZeroCommas ==
    (pc = "done") =>
        LET n == Cardinality(TopCommas(data))
        IN  /\ Len(ret) = n + (IF Segment(data, n + 1) = "" THEN 0 ELSE 1)
            /\ \A j \in 1..Len(ret) : ret[j] = Strip(Segment(data, j))

\* C4 witness: a comma inside <...> stayed in its argument and a comma at
\* depth 0 split
C4_Witness ==
    /\ pc = "done"
    /\ data = "<,>,a"
    /\ ret = <<"<,>", "a">>

\* C8 as claimed: every string without a comma at depth 0 splits into one
\* element, the trimmed input.
C8_Original ==
    (pc = "done" /\ TopCommas(data) = {}) => ret = <<Strip(data)>>

\* C8 amended: every non-empty string without a comma at depth 0 splits
\* into one element, the trimmed input; the empty string splits into no
\* element.
C8_NonEmptySingleArgument ==
    /\ (pc = "done" /\ data # "" /\ TopCommas(data) = {}) => ret = <<Strip(data)>>
    /\ (pc = "done" /\ data = "") => ret = <<>>

\* C8 witness: a single argument with a nested comma and spaces around it
C8_Witness ==
    /\ pc = "done"
    /\ data = " <,> "
    /\ ret = <<"<,>">>

\* The number of OffsetCounter.next() calls made so far
NextCalls == IF pc \in {"_make_possible_arg_offsets", "this"} THEN 0 ELSE pos + 1

\* C2: the k-th result of next() on a fresh counter is the k-th slot of the
\* fixed order r0..r3, STACK[0x0], STACK[0x4], ...; no slot is returned
\* twice, so the keys of d are the results in call order.
C2_SlotOrder ==
    (pc \in {"this", "args", "done"}) =>
        /\ Len(d) = NextCalls
        /\ \A k \in 1..Len(d) : d[k][1] = ExpectedSlots[k]
        /\ \A j, k \in 1..Len(d) : d[j][1] = d[k][1] => j = k
        /\ \A j, k \in 1..Len(d) :
              (StartsWith(d[j][1], "r") /\ StartsWith(d[k][1], "STACK[")) => j < k
        /\ next_value(counter) = ExpectedSlots[Len(d) + 1]

\* C2 witness: the eighth call returned STACK[0xc]
C2_Witness ==
    /\ pc = "done"
    /\ Len(d) >= 8
    /\ d[4][1] = "r3"
    /\ d[8][1] = "STACK[0xc]"

\* The this-call heuristic of the record under construction
IsThisCall == _is_this_call(_find_namespace(demangled.value), demangled.value)

\* C1 as claimed: when the this-call heuristic is false the slot map has no
\* receiver entry: it binds the k-th argument to the k-th slot from r0.
C1_NoReceiverWhenNotThisCall ==
    (pc = "done" /\ ~demangled.raised /\ ~IsThisCall) =>
        /\ Len(ret.arg_offsets) = Len(ret.args)
        /\ \A k \in 1..Len(ret.args) :
              ret.arg_offsets[k] = <<ExpectedSlots[k], ret.args[k]>>

\* C3: a signature treated as a member call with n arguments has n + 1
\* slots, r0 bound to "this" and the k-th argument bound to the (k+1)-th
\* slot; cococs2d::SomeClass::method(int) gives {r0: this, r1: int}.
C3_ReceiverFirst ==
    (pc = "done" /\ ~demangled.raised /\ IsThisCall) =>
        /\ Len(ret.arg_offsets) = Len(ret.args) + 1
        /\ ret.arg_offsets[1] = <<"r0", "this">>
        /\ \A k \in 1..Len(ret.args) :
              ret.arg_offsets[k + 1] = <<ExpectedSlots[k + 1], Strip(ret.args[k])>>
        /\ (demangled.value = "cococs2d::SomeClass::method(int)" =>
              /\ ret.args = <<"int">>
              /\ ret.namespaceEnum = COCOS2D
              /\ ret.arg_offsets = << <<"r0", "this">>, <<"r1", "int">> >>)

\* C3 witness: a member call whose fourth argument went to the stack
C3_Witness ==
    /\ pc = "done"
    /\ ~demangled.raised
    /\ IsThisCall
    /\ Len(ret.args) = 4
    /\ ret.arg_offsets[1] = <<"r0", "this">>
    /\ ret.arg_offsets[5][1] = "STACK[0x0]"

\* C9: the namespace fields follow from the prefix of demangled_func alone.
C9_NamespaceFromPrefix ==
    (pc = "done") =>
        LET f == ret.demangled_func
            tag == <<ret.namespaceEnum, ret.namespaceName>>
        IN  /\ (tag = <<3, "cocos2d">>) <=> StartsWith(f, "cococs2d::")
            /\ (tag = <<2, "std">>) <=> StartsWith(f, "std::")
            /\ (tag = <<4, "pugi">>) <=> StartsWith(f, "pugi::")
            /\ (tag = <<1, "none">>) <=>
                  ~(\/ StartsWith(f, "cococs2d::")
                    \/ StartsWith(f, "std::")
                    \/ StartsWith(f, "pugi::"))
            /\ tag \in {<<1, "none">>, <<2, "std">>, <<3, "cocos2d">>, <<4, "pugi">>}
            /\ (f = "FAILED" => tag = <<1, "none">>)

\* C9 witness: the correctly spelled cocos2d:: is no known prefix
C9_Witness ==
    /\ pc = "done"
    /\ StartsWith(ret.demangled_func, "cocos2d::")
    /\ ret.namespaceEnum = 1
    /\ ret.namespaceName = "none"

\* The record of a name the demangler rejected
FailedRecord(name) ==
    [mangled_func |-> name,
     demangled_func |-> "FAILED",
     args |-> <<>>,
     namespaceEnum |-> 1,
     namespaceName |-> "none",
     arg_offsets |-> <<>>]

\* The symbols the loop has passed to add_func whose demangling failed
FailedCalls ==
    {j \in 1..pos : StartsWith(symtab[j], "_Z") /\ demangle(symtab[j]).raised}

\* C5: a name the demangler rejects yields the FAILED record with empty
\* args and arg_offsets and namespace NONE, and add_func appends it: every
\* such call so far has its record in functions.
C5_FailedRecordKept ==
    (pc \in {"symbols", "done"}) =>
        /\ \A j \in 1..Len(functions) :
              demangle(functions[j].mangled_func).raised =>
                  functions[j] = FailedRecord(functions[j].mangled_func)
        /\ Cardinality({j \in 1..Len(functions) :
                            functions[j].demangled_func = "FAILED"})
           = Cardinality(FailedCalls)

\* C5 witness: a FAILED record was appended and the next call appended an
\* ordinary record after it
C5_Witness ==
    /\ pos = 2
    /\ Len(functions) = 2
    /\ functions[1] = FailedRecord("_Z")
    /\ functions[2].demangled_func = "f(int)"

\* What the exclusion policy rejects, as the claims state it
Rejected(f) ==
    \/ StartsWith(f.demangled_func, "typeinfo name for ")
    \/ StartsWith(f.demangled_func, "typeinfo for ")
    \/ StartsWith(f.demangled_func, "{vtable")
    \/ \E j \in 1..Len(f.args) : StartsWith(f.args[j], "std::__exception_ptr")

\* One add_func call of the loop
IsAddFuncStep ==
    /\ pc = "symbols"
    /\ pos < Len(symtab)
    /\ pos' = pos + 1
    /\ StartsWith(symtab[pos + 1], "_Z")

\* C6: functions never holds a record the exclusion policy rejects; an
\* add_func call with such a record changes neither functions nor version,
\* and every other record is appended.
C6_OnlyAcceptedRecords ==
    /\ [](pc \in {"symbols", "done"} =>
            \A j \in 1..Len(functions) : ~Rejected(functions[j]))
    /\ [][IsAddFuncStep =>
            LET f == Function(symtab[pos + 1], demangle(symtab[pos + 1]))
            IN  IF Rejected(f)
                THEN functions' = functions /\ version' = version
                ELSE functions' = Append(functions, f)]_vars

\* C6 witness: a record with an exception-pointer argument after an int
\* was rejected and an ordinary record accepted
C6_Witness ==
    /\ pos = 2
    /\ symtab[1] = "_Z1giNSt15__exception_ptr13exception_ptrE"
    /\ symtab[2] = "_Z8typeinfov"
    /\ Len(functions) = 1
    /\ functions[1].demangled_func = "typeinfo()"

RECURSIVE AcceptedRecords(_)
\* The records of the accepted names among the first k symbols, in order
AcceptedRecords(k) ==
    IF k = 0 THEN <<>>
    ELSE LET name == symtab[k]
             f == Function(name, demangle(name))
         IN  IF StartsWith(name, "_Z") /\ ~Rejected(f)
             THEN Append(AcceptedRecords(k - 1), f)
             ELSE AcceptedRecords(k - 1)

\* C7: functions is the sequence of the records of the accepted names in
\* call order, and as_json emits total_functions = len(functions) with the
\* records in the same order.
C7_InsertionOrder ==
    (pc \in {"symbols", "done"}) =>
        /\ functions = AcceptedRecords(pos)
        /\ (pc = "done" =>
              /\ output.total_functions = Len(functions)
              /\ Len(output.functions) = Len(functions)
              /\ \A j \in 1..Len(functions) :
                    output.functions[j].mangled_func = functions[j].mangled_func)

\* C7 witness: two different names were accepted and written in call order
C7_Witness ==
    /\ pc = "done"
    /\ symtab = <<"_Z1fi", "_ZN7cococs2d9SomeClass6methodEi">>
    /\ output.total_functions = 2
    /\ output.functions[1].mangled_func = "_Z1fi"
    /\ output.functions[2].mangled_func = "_ZN7cococs2d9SomeClass6methodEi"

\* A signature wrapped in outer braces
Wrapped(s) == Len(s) >= 2 /\ CharAt(s, 1) = "{" /\ CharAt(s, Len(s)) = "}"

\* C10 as claimed, for the signatures not wrapped in outer braces: the
\* arguments are split_cpp_args of what lies between the first "(" and
\* the last ")", and there are none when the signature has no "(".
C10_BraceRuleOnlyWhenWrapped ==
    (pc = "done" /\ ~Wrapped(func)) =>
        /\ (Contains(func, "(") /\ Contains(func, ")")
              /\ Min(Occurrences(func, "(")) < Max(Occurrences(func, ")")))
           => ret = split_cpp_args(SubSeq(func, Min(Occurrences(func, "(")) + 1,
                                          Max(Occurrences(func, ")")) - 1))
        /\ ~Contains(func, "(") => ret = <<>>

=============================================================================
